---- MODULE Spec2Model ----
(***************************************************************************)
(* State-machine model of rf-viewer.py: the ROILogic position holder, the  *)
(* ImageLogic image holder, the ImageDock zoom view, the PlotsDock         *)
(* cross-section plots and the command-line loop that opens one RFViewer   *)
(* per file.  Signals are delivered synchronously, so every user event and *)
(* every setter call is one action that runs all its slots to completion.  *)
(***************************************************************************)
EXTENDS Integers, Sequences, FiniteSets, TLC

VARIABLES
    pc,              \* "main": the loop of lines 321-323; "exec": app.exec_(); "crashed": uncaught exception
    runtime,         \* the interpreter that runs the script (decides what int / int is)
    viewers,         \* the list `viewers` of line 321, one record per RFViewer
    images_to_plot,  \* PlotsDock._images_to_plot, the class attribute of line 19
    op               \* observation of the last operation: its signals, setter calls, index

vars == <<pc, runtime, viewers, images_to_plot, op>>

(***************************************************************************)
(* Bounds of the model.                                                    *)
(***************************************************************************)
MaxFiles == 2     \* at most this many paths on the command line
MaxOffset == 1    \* extra positions <<80, 60 + i>> a ROI can be moved to

(***************************************************************************)
(* Program constants.                                                      *)
(***************************************************************************)
ZoomRoiPosDefault == <<80, 60>>
PlotRoiPosDefault == <<320, 300>>
ZoomRoiFirstArg == <<300, 200>>
PlotRoiSize == <<9, 150>>
SamplingMHz == 40

DockNames == {"rf", "bmode"}

\* Positions a ROI is dragged or set to: the three positions the source
\* names, and positions that share x = 80 with the default zoom position.
Positions ==
    {ZoomRoiPosDefault, PlotRoiPosDefault, ZoomRoiFirstArg}
        \cup {<<80, 60 + i>> : i \in 1..MaxOffset}

Runtimes == {"py2", "py3", "py3_oldnumpy"}

(***************************************************************************)
(* NumPy arrays are [shape, data] with data in row-major order;            *)
(* SimpleITK images are [size, spacing, array].                            *)
(***************************************************************************)
NoArray == [shape |-> <<>>, data |-> <<>>]
NoImage == [size |-> <<>>, spacing |-> <<>>, array |-> NoArray]

Abs(x) == IF x < 0 THEN -x ELSE x

Reverse(s) == [i \in 1..Len(s) |-> s[Len(s) + 1 - i]]

SeqMin(s) == CHOOSE m \in {s[i] : i \in DOMAIN s} : \A i \in DOMAIN s : m <= s[i]
SeqMax(s) == CHOOSE m \in {s[i] : i \in DOMAIN s} : \A i \in DOMAIN s : m >= s[i]

\* The files on disk: sitk.ReadImage(filepath).  "a.mha" is a 2D image,
\* "b.mha" a 3D image with one slice.
FilePaths == {"a.mha", "b.mha"}
ReadImage(filepath) ==
    IF filepath = "a.mha"
    THEN [size |-> <<2, 2>>, spacing |-> <<1, 2>>,
          array |-> [shape |-> <<2, 2>>, data |-> <<-3, 1, 2, 5>>]]
    ELSE [size |-> <<2, 2, 1>>, spacing |-> <<1, 1, 3>>,
          array |-> [shape |-> <<1, 2, 2>>, data |-> <<4, -7, 1, 6>>]]

GetArrayFromImage(image) == image.array

\* sitk.GetImageFromArray: size is the reversed shape, spacing is all ones.
GetImageFromArray(array) ==
    [size |-> Reverse(array.shape),
     spacing |-> [i \in 1..Len(array.shape) |-> 1],
     array |-> array]

\* image.CopyInformation(source): the geometry of source, the pixels kept.
CopyInformation(image, source) == [image EXCEPT !.spacing = source.spacing]

\* ndarray.squeeze(): the axes of length one are dropped, the data kept.
squeeze(array) ==
    [shape |-> SelectSeq(array.shape, LAMBDA n : n # 1), data |-> array.data]

\* ndarray.transpose(): the axes reversed.  Arrays of one or two axes.
transpose(array) ==
    IF Len(array.shape) # 2
    THEN array
    ELSE LET r == array.shape[1]
             c == array.shape[2]
         IN [shape |-> <<c, r>>,
             data |-> [k \in 1..(r * c) |->
                          LET j == ((k - 1) \div r) + 1
                              i == ((k - 1) % r) + 1
                          IN array.data[(i - 1) * c + j]]]

\* np.abs(scipy.signal.hilbert(array, axis=1)).  Along an axis of two samples
\* the analytic signal's multiplier is <<1, 1>>, its imaginary part is zero,
\* and the magnitude is the absolute value of each sample.
envelope(array) ==
    [shape |-> array.shape, data |-> [i \in DOMAIN array.data |-> Abs(array.data[i])]]

(***************************************************************************)
(* ImageLogic                                                              *)
(***************************************************************************)
ImageLogic_new(filepath) ==
    [filepath |-> filepath, image |-> NoImage, image_array |-> NoArray,
     image_min |-> 0, image_max |-> 0]

\* A setter that keeps the cached range of the previous image.
set_image_stale_range(image_logic, image) ==
    [image_logic EXCEPT
        !.image = image,
        !.image_array = transpose(squeeze(GetArrayFromImage(image)))]

set_image(image_logic, image) ==
    LET image_array == transpose(squeeze(GetArrayFromImage(image)))
    IN [image_logic EXCEPT
           !.image = image,
           !.image_array = image_array,
           !.image_min = SeqMin(image_array.data),
           !.image_max = SeqMax(image_array.data)]

ImageLogic_init(filepath) ==
    IF filepath # ""
    THEN set_image(ImageLogic_new(filepath), ReadImage(filepath))
    ELSE ImageLogic_new(filepath)

(***************************************************************************)
(* ROI widgets, image items and plot curves                                *)
(***************************************************************************)
NoROI == [pos |-> <<0, 0>>, size |-> <<0, 0>>]
EllipseROI(pos, size) == [pos |-> pos, size |-> size]
RectROI(pos, size) == [pos |-> pos, size |-> size]

NoBlock == [array |-> NoArray, pos |-> <<0, 0>>, shape |-> <<0, 0>>]

\* roi.getArrayRegion(image_array, image_item): the block of image_array
\* under the ROI, one row per unit of the ROI's first size component.
getArrayRegion(roi, image_array) ==
    [array |-> image_array, pos |-> roi.pos, shape |-> roi.size]

NoIndex == [isInt |-> TRUE, num |-> 0, den |-> 1]
NoImageItem == [image |-> NoBlock, levels |-> <<0, 0>>]
\* A curve's data: yy is row `row` of `block`; xx is arange(n) / 40.
NoCurve ==
    [hasData |-> FALSE, block |-> NoBlock, row |-> 0,
     xx |-> [n |-> 0, num |-> 1, den |-> SamplingMHz], index |-> NoIndex]

NoDock ==
    [image_logic |-> ImageLogic_new(""), zoom_roi |-> NoROI,
     roi_image_item |-> NoImageItem, plot_roi |-> NoROI]

ROILogic_init ==
    [zoom_roi_pos |-> ZoomRoiPosDefault,
     plot_roi_pos |-> PlotRoiPosDefault,
     zoom_roi_pos_changed |-> <<>>,
     plot_roi_pos_changed |-> <<>>]

ZoomRef(s, d) == [viewer |-> s, dock |-> d, kind |-> "zoom"]
PlotRef(s, d) == [viewer |-> s, dock |-> d, kind |-> "plot"]

ArgROI(r) == [isROI |-> TRUE, roi |-> r, pos |-> <<0, 0>>]
ArgPos(p) == [isROI |-> FALSE, roi |-> ZoomRef(0, ""), pos |-> p]

GetROI(W, r) ==
    IF r.kind = "zoom"
    THEN W.viewers[r.viewer].dock[r.dock].zoom_roi
    ELSE W.viewers[r.viewer].dock[r.dock].plot_roi

PutROIPos(W, r, pos) ==
    IF r.kind = "zoom"
    THEN [W EXCEPT !.viewers[r.viewer].dock[r.dock].zoom_roi.pos = pos]
    ELSE [W EXCEPT !.viewers[r.viewer].dock[r.dock].plot_roi.pos = pos]

\* if isinstance(roi_or_pos, pg.ROI): pos = roi_or_pos.pos() else pos = roi_or_pos
pos_of(W, roi_or_pos) ==
    IF roi_or_pos.isROI THEN GetROI(W, roi_or_pos.roi).pos ELSE roi_or_pos.pos

\* a / b on two ints: floor division in Python 2, a float in Python 3.
PyDiv(a, b) ==
    IF runtime = "py2"
    THEN [isInt |-> TRUE, num |-> a \div b, den |-> 1]
    ELSE [isInt |-> FALSE, num |-> a, den |-> b]

(***************************************************************************)
(* Signals and slots.  W is the program's heap while a handler runs:       *)
(* [viewers, images_to_plot] and the observation [notified, set_calls,     *)
(* updates, raised, index].                                                *)
(***************************************************************************)
RECURSIVE pyqtSignal_emit(_, _, _, _, _)
RECURSIVE update_plot_entries(_, _, _)

\* roi.setPos(pos, update=False): the position is stored, the change is not
\* processed and sigRegionChanged is not emitted.
setPos(W, r, pos) == PutROIPos(W, r, pos)

\* A slot that moves its ROI with update=True: a ROI that changes position
\* emits sigRegionChanged, which runs the setter again with the position it
\* already holds.
update_zoom_roi_content_update_true(W, s, d, roi_or_pos) ==
    LET pos == pos_of(W, roi_or_pos)
        moved == GetROI(W, ZoomRef(s, d)).pos # pos
        W1 == setPos([W EXCEPT !.updates = @ + 1,
                               !.set_calls = IF moved THEN @ + 1 ELSE @],
                     ZoomRef(s, d), pos)
        dock == W1.viewers[s].dock[d]
        region == getArrayRegion(dock.zoom_roi, dock.image_logic.image_array)
    IN [W1 EXCEPT !.viewers[s].dock[d].roi_image_item =
           [image |-> region,
            levels |-> <<dock.image_logic.image_min, dock.image_logic.image_max>>]]

update_zoom_roi_content(W, s, d, roi_or_pos) ==
    LET pos == pos_of(W, roi_or_pos)
        W1 == setPos([W EXCEPT !.updates = @ + 1], ZoomRef(s, d), pos)
        dock == W1.viewers[s].dock[d]
        region == getArrayRegion(dock.zoom_roi, dock.image_logic.image_array)
    IN [W1 EXCEPT !.viewers[s].dock[d].roi_image_item =
           [image |-> region,
            levels |-> <<dock.image_logic.image_min, dock.image_logic.image_max>>]]

\* The loop of lines 55-62 from entry i on.  A float index raises IndexError
\* in NumPy; NumPy before 1.12 truncated it with a warning.
update_plot_entries(W, pos, i) ==
    IF i > Len(W.images_to_plot) \/ W.raised
    THEN W
    ELSE LET e == W.images_to_plot[i]
             W1 == setPos(W, e.plot_roi, pos)
             data == getArrayRegion(GetROI(W1, e.plot_roi), e.image_array)
             index == PyDiv(data.shape[1], 2)
         IN IF ~index.isInt /\ runtime = "py3"
            THEN [W1 EXCEPT !.raised = TRUE, !.index = index]
            ELSE LET row == index.num \div index.den
                     W2 == [W1 EXCEPT
                               !.index = index,
                               !.viewers[e.plot_roi.viewer].plot_curve[e.plot_roi.dock] =
                                   [hasData |-> TRUE, block |-> data, row |-> row,
                                    xx |-> [n |-> data.shape[2], num |-> 1, den |-> SamplingMHz],
                                    index |-> index]]
                 IN update_plot_entries(W2, pos, i + 1)

update_plot_content(W, roi_or_pos) ==
    update_plot_entries([W EXCEPT !.updates = @ + 1], pos_of(W, roi_or_pos), 1)

\* signal.emit(payload): each connected slot, in connection order.
pyqtSignal_emit(W, s, signal, slots, payload) ==
    IF slots = <<>>
    THEN W
    ELSE LET slot == Head(slots)
             W1 == [W EXCEPT !.notified =
                        Append(@, [signal |-> signal, viewer |-> s,
                                   dock |-> slot.dock, payload |-> payload])]
             W2 == IF slot.receiver = "update_zoom_roi_content"
                   THEN update_zoom_roi_content(W1, s, slot.dock, ArgPos(payload))
                   ELSE update_plot_content(W1, ArgPos(payload))
         IN pyqtSignal_emit(W2, s, signal, Tail(slots), payload)

\* A setter that compares the first coordinate only.
set_zoom_roi_pos_first_coordinate(W, s, roi_or_pos) ==
    LET pos == pos_of(W, roi_or_pos)
        W0 == [W EXCEPT !.set_calls = @ + 1]
    IN IF pos[1] # W0.viewers[s].roi_logic.zoom_roi_pos[1]
       THEN LET W1 == [W0 EXCEPT !.viewers[s].roi_logic.zoom_roi_pos = <<pos[1], pos[2]>>]
            IN pyqtSignal_emit(W1, s, "zoom_roi_pos_changed",
                               W1.viewers[s].roi_logic.zoom_roi_pos_changed,
                               W1.viewers[s].roi_logic.zoom_roi_pos)
       ELSE W0

\* A setter without the comparison: it stores and emits on every call.
set_zoom_roi_pos_always_emits(W, s, roi_or_pos) ==
    LET pos == pos_of(W, roi_or_pos)
        W0 == [W EXCEPT !.set_calls = @ + 1]
        W1 == [W0 EXCEPT !.viewers[s].roi_logic.zoom_roi_pos = <<pos[1], pos[2]>>]
    IN pyqtSignal_emit(W1, s, "zoom_roi_pos_changed",
                       W1.viewers[s].roi_logic.zoom_roi_pos_changed,
                       W1.viewers[s].roi_logic.zoom_roi_pos)

set_zoom_roi_pos(W, s, roi_or_pos) ==
    LET pos == pos_of(W, roi_or_pos)
        W0 == [W EXCEPT !.set_calls = @ + 1]
    IN IF <<pos[1], pos[2]>> # W0.viewers[s].roi_logic.zoom_roi_pos
       THEN LET W1 == [W0 EXCEPT !.viewers[s].roi_logic.zoom_roi_pos = <<pos[1], pos[2]>>]
            IN pyqtSignal_emit(W1, s, "zoom_roi_pos_changed",
                               W1.viewers[s].roi_logic.zoom_roi_pos_changed,
                               W1.viewers[s].roi_logic.zoom_roi_pos)
       ELSE W0

set_plot_roi_pos(W, s, roi_or_pos) ==
    LET pos == pos_of(W, roi_or_pos)
        W0 == [W EXCEPT !.set_calls = @ + 1]
    IN IF <<pos[1], pos[2]>> # W0.viewers[s].roi_logic.plot_roi_pos
       THEN LET W1 == [W0 EXCEPT !.viewers[s].roi_logic.plot_roi_pos = <<pos[1], pos[2]>>]
            IN pyqtSignal_emit(W1, s, "plot_roi_pos_changed",
                               W1.viewers[s].roi_logic.plot_roi_pos_changed,
                               W1.viewers[s].roi_logic.plot_roi_pos)
       ELSE W0

\* The user moves ROI r to pos: the ROI takes the position and emits
\* sigRegionChanged(r) to its slot, connected at line 103 for a zoom ROI and
\* at line 42 for a plot ROI.
sigRegionChanged_emit(W, r, pos) ==
    LET W1 == PutROIPos(W, r, pos)
    IN IF r.kind = "zoom"
       THEN set_zoom_roi_pos(W1, r.viewer, ArgROI(r))
       ELSE update_plot_content(W1, ArgROI(r))

(***************************************************************************)
(* Construction: RFViewer(filepath), lines 309-311 and 251-303.            *)
(***************************************************************************)
\* ImageDock.__init__ and initializeUI, lines 68-107.
ImageDock_init(W, s, d, image_logic) ==
    LET roi_logic == W.viewers[s].roi_logic
        zoom_roi == EllipseROI(ZoomRoiFirstArg, roi_logic.zoom_roi_pos)
        W1 == [W EXCEPT
                  !.viewers[s].dock[d] =
                      [image_logic |-> image_logic, zoom_roi |-> zoom_roi,
                       roi_image_item |-> NoImageItem, plot_roi |-> NoROI],
                  !.viewers[s].roi_logic.zoom_roi_pos_changed =
                      Append(@, [receiver |-> "update_zoom_roi_content", dock |-> d])]
    IN update_zoom_roi_content(W1, s, d, ArgROI(ZoomRef(s, d)))

\* ImageDock.add_plot_roi, lines 109-115.
add_plot_roi(W, s, d) ==
    [W EXCEPT !.viewers[s].dock[d].plot_roi =
        RectROI(W.viewers[s].roi_logic.plot_roi_pos, PlotRoiSize)]

\* PlotsDock.add_image_to_plot, lines 31-47.
add_image_to_plot(W, plot_roi, image_array) ==
    LET W1 == [W EXCEPT !.images_to_plot =
                   Append(@, [plot_roi |-> plot_roi, image_array |-> image_array])]
    IN update_plot_content(W1, ArgROI(plot_roi))

NewViewer(filepath) ==
    [filepath |-> filepath,
     roi_logic |-> ROILogic_init,
     dock |-> [d \in DockNames |-> NoDock],
     plot_curve |-> [d \in DockNames |-> NoCurve]]

\* RFViewerWindow.initializeUI, lines 263-300.
RFViewer_init(W, filepath) ==
    LET s == Len(W.viewers) + 1
        W0 == [W EXCEPT !.viewers = Append(@, NewViewer(filepath))]
        rf_image_logic == ImageLogic_init(filepath)
        W1 == ImageDock_init(W0, s, "rf", rf_image_logic)
        array == GetArrayFromImage(rf_image_logic.image)
        b_mode_image ==
            CopyInformation(GetImageFromArray(envelope(array)), rf_image_logic.image)
        b_mode_image_logic == set_image(ImageLogic_init(""), b_mode_image)
        W2 == ImageDock_init(W1, s, "bmode", b_mode_image_logic)
        W3 == add_image_to_plot(add_plot_roi(W2, s, "rf"), PlotRef(s, "rf"),
                                rf_image_logic.image_array)
    IN IF W3.raised
       THEN W3
       ELSE add_image_to_plot(add_plot_roi(W3, s, "bmode"), PlotRef(s, "bmode"),
                              b_mode_image_logic.image_array)

(***************************************************************************)
(* The state machine                                                       *)
(***************************************************************************)
Heap ==
    [viewers |-> viewers, images_to_plot |-> images_to_plot,
     notified |-> <<>>, set_calls |-> 0, updates |-> 0,
     raised |-> FALSE, index |-> NoIndex]

Observe(W, kind, s, d, pos, old) ==
    [kind |-> kind, viewer |-> s, dock |-> d, pos |-> pos, old |-> old,
     notified |-> W.notified, set_calls |-> W.set_calls, updates |-> W.updates,
     raised |-> W.raised, index |-> W.index]

Init ==
    /\ pc = "main"
    /\ runtime \in Runtimes
    /\ viewers = <<>>
    /\ images_to_plot = <<>>
    /\ op = Observe(Heap, "start", 0, "", <<0, 0>>, <<0, 0>>)

\* One iteration of the loop of lines 322-323: viewers.append(RFViewer(filepath)).
\* An exception leaves the loop and ends the script before the append.
Construct(filepath) ==
    /\ pc = "main"
    /\ Len(viewers) < MaxFiles
    /\ LET W == RFViewer_init(Heap, filepath)
           s == Len(viewers) + 1
       IN /\ pc' = IF W.raised THEN "crashed" ELSE "main"
          /\ viewers' = IF W.raised THEN viewers ELSE W.viewers
          /\ images_to_plot' = W.images_to_plot
          /\ op' = Observe(W, "construct", s, "", <<0, 0>>, <<0, 0>>)
    /\ UNCHANGED runtime

\* Line 325: app.exec_(), after the loop over a non-empty list of files.
Exec ==
    /\ pc = "main"
    /\ Len(viewers) >= 1
    /\ pc' = "exec"
    /\ op' = Observe(Heap, "exec", 0, "", <<0, 0>>, <<0, 0>>)
    /\ UNCHANGED <<runtime, viewers, images_to_plot>>

\* The user drags the zoom ROI of dock d of viewer s to p.
DragZoom(s, d, p) ==
    /\ pc = "exec"
    /\ viewers[s].dock[d].zoom_roi.pos # p
    /\ LET W == sigRegionChanged_emit(Heap, ZoomRef(s, d), p)
       IN /\ viewers' = W.viewers
          /\ images_to_plot' = W.images_to_plot
          /\ op' = Observe(W, "drag_zoom", s, d, p, viewers[s].roi_logic.zoom_roi_pos)
    /\ UNCHANGED <<pc, runtime>>

\* The user drags the plot ROI of dock d of viewer s to p.
DragPlot(s, d, p) ==
    /\ pc = "exec"
    /\ viewers[s].dock[d].plot_roi.pos # p
    /\ LET W == sigRegionChanged_emit(Heap, PlotRef(s, d), p)
       IN /\ viewers' = W.viewers
          /\ images_to_plot' = W.images_to_plot
          /\ op' = Observe(W, "drag_plot", s, d, p, viewers[s].roi_logic.plot_roi_pos)
    /\ UNCHANGED <<pc, runtime>>

\* roi_logic.zoom_roi_pos = p, the property setter of lines 155-157.
SetZoomRoiPos(s, p) ==
    /\ pc = "exec"
    /\ LET W == set_zoom_roi_pos(Heap, s, ArgPos(p))
       IN /\ viewers' = W.viewers
          /\ images_to_plot' = W.images_to_plot
          /\ op' = Observe(W, "set_zoom", s, "", p, viewers[s].roi_logic.zoom_roi_pos)
    /\ UNCHANGED <<pc, runtime>>

\* roi_logic.plot_roi_pos = p, the property setter of lines 173-175.
SetPlotRoiPos(s, p) ==
    /\ pc = "exec"
    /\ LET W == set_plot_roi_pos(Heap, s, ArgPos(p))
       IN /\ viewers' = W.viewers
          /\ images_to_plot' = W.images_to_plot
          /\ op' = Observe(W, "set_plot", s, "", p, viewers[s].roi_logic.plot_roi_pos)
    /\ UNCHANGED <<pc, runtime>>

\* image_logic.image = sitk.ReadImage(filepath), the property setter of lines 219-221.
SetImage(s, d, filepath) ==
    /\ pc = "exec"
    /\ viewers' = [viewers EXCEPT ![s].dock[d].image_logic =
                       set_image(@, ReadImage(filepath))]
    /\ op' = Observe(Heap, "set_image", s, d, <<0, 0>>, <<0, 0>>)
    /\ UNCHANGED <<pc, runtime, images_to_plot>>

\* The script run on one file: the first iteration of the loop, and no other.
ConstructSingle(filepath) ==
    /\ Len(viewers) = 0
    /\ Construct(filepath)

\* The program: the command-line loop, the event loop and the user's drags.
Next ==
    \/ \E filepath \in FilePaths : Construct(filepath)
    \/ Exec
    \/ \E s \in DOMAIN viewers, d \in DockNames, p \in Positions : DragZoom(s, d, p)
    \/ \E s \in DOMAIN viewers, d \in DockNames, p \in Positions : DragPlot(s, d, p)

Spec == Init /\ [][Next]_vars

\* One viewer, the user's drags and the position setters of ROILogic.
NextSetters ==
    \/ \E filepath \in FilePaths : ConstructSingle(filepath)
    \/ Exec
    \/ \E s \in DOMAIN viewers, d \in DockNames, p \in Positions : DragZoom(s, d, p)
    \/ \E s \in DOMAIN viewers, d \in DockNames, p \in Positions : DragPlot(s, d, p)
    \/ \E s \in DOMAIN viewers, p \in Positions : SetZoomRoiPos(s, p)
    \/ \E s \in DOMAIN viewers, p \in Positions : SetPlotRoiPos(s, p)

SpecSetters == Init /\ [][NextSetters]_vars

\* One viewer, the zoom drags and the image setter of ImageLogic.
NextImages ==
    \/ \E filepath \in FilePaths : ConstructSingle(filepath)
    \/ Exec
    \/ \E s \in DOMAIN viewers, d \in DockNames, p \in Positions : DragZoom(s, d, p)
    \/ \E s \in DOMAIN viewers, d \in DockNames, filepath \in FilePaths : SetImage(s, d, filepath)

SpecImages == Init /\ [][NextImages]_vars

(***************************************************************************)
(* Properties                                                              *)
(***************************************************************************)
SetKinds == {"set_zoom", "set_plot"}
DragKinds == {"drag_zoom", "drag_plot"}
ZoomKinds == {"set_zoom", "drag_zoom"}

\* The position ROILogic holds, and the slots connected to its signal, for
\* the name the last operation is about.
StoredPos ==
    IF op.kind \in ZoomKinds
    THEN viewers[op.viewer].roi_logic.zoom_roi_pos
    ELSE viewers[op.viewer].roi_logic.plot_roi_pos

Subscribers ==
    IF op.kind \in ZoomKinds
    THEN viewers[op.viewer].roi_logic.zoom_roi_pos_changed
    ELSE viewers[op.viewer].roi_logic.plot_roi_pos_changed

\* C1: a setter call (by assignment, or by the zoom ROI's signal) with a
\* position pairwise-equal to the stored one leaves the stored position as
\* it was and emits no notification.
C1_EqualSetIsNoOp ==
    (op.kind \in SetKinds \cup {"drag_zoom"} /\ op.pos = op.old)
        => (StoredPos = op.old /\ op.notified = <<>> /\ op.updates = 0)

C1_Witness ==
    /\ op.kind = "set_zoom"
    /\ op.pos = op.old
    /\ op.set_calls = 1
    /\ Len(Subscribers) = 2

\* C2: a setter call with a position different from the stored one stores
\* the new position and delivers one notification per subscriber, in
\* connection order, each with the new position as payload.
C2_ChangedSetNotifiesOnce ==
    (op.kind \in SetKinds /\ op.pos # op.old)
        => /\ StoredPos = op.pos
           /\ Len(op.notified) = Len(Subscribers)
           /\ \A i \in DOMAIN Subscribers :
                  /\ op.notified[i].dock = Subscribers[i].dock
                  /\ op.notified[i].payload = op.pos

C2_Witness ==
    /\ op.kind = "set_zoom"
    /\ op.pos # op.old
    /\ op.pos[1] = op.old[1]
    /\ Len(op.notified) = 2

\* C3: after the handlers of a drag have run, ROILogic holds the dragged
\* position under the ROI's name, and every display update of the drag was
\* delivered by a notification of ROILogic.
C3_DragGoesThroughROILogic ==
    op.kind \in DragKinds
        => (StoredPos = op.pos /\ op.updates = Len(op.notified))

\* C4: a viewer's construction extracts and pushes at once, the zoom regions
\* at ROILogic's zoom_roi_pos and the cross-sections at its plot_roi_pos.
C4_InitialExtractionAtStoredPos ==
    (op.kind = "construct" /\ ~op.raised)
        => \A d \in DockNames :
               LET v == viewers[op.viewer]
               IN /\ v.dock[d].roi_image_item.image.pos = v.roi_logic.zoom_roi_pos
                  /\ v.plot_curve[d].hasData
                  /\ v.plot_curve[d].block.pos = v.roi_logic.plot_roi_pos

\* C5: one value-changing setter call recomputes the outputs of both docks
\* (zoom regions for the zoom name, cross-sections for the plot name) at the
\* new position.
C5_SetUpdatesBothPairs ==
    (op.kind \in SetKinds /\ op.pos # op.old)
        => \A d \in DockNames :
               LET v == viewers[op.viewer]
               IN IF op.kind = "set_zoom"
                  THEN v.dock[d].roi_image_item.image.pos = op.pos
                  ELSE v.plot_curve[d].block.pos = op.pos

\* C6: a drag in one viewer leaves every other viewer as it was.
C6_ViewersIndependent ==
    [][\A t \in DOMAIN viewers :
          (op'.kind \in DragKinds /\ op'.viewer # t) => viewers'[t] = viewers[t]]_vars

\* C7: no feedback: a drag or a setter call runs the setter at most once,
\* delivers at most one notification per subscriber, and runs a display
\* update only for a notification (zoom) or once for the dragged plot ROI.
C7_NoFeedback ==
    /\ op.kind \in ZoomKinds =>
           /\ op.set_calls = 1
           /\ Len(op.notified) <= Len(Subscribers)
           /\ op.updates = Len(op.notified)
    /\ op.kind = "set_plot" =>
           (op.set_calls = 1 /\ Len(op.notified) <= Len(Subscribers) /\ op.updates = 0)
    /\ op.kind = "drag_plot" =>
           (op.set_calls = 0 /\ op.notified = <<>> /\ op.updates = 1)

C7_Witness ==
    /\ op.kind = "drag_zoom"
    /\ op.pos # op.old
    /\ op.updates = 2
    /\ \A d \in DockNames : viewers[op.viewer].dock[d].zoom_roi.pos = op.pos

\* C8: the index of the row taken from the extracted block is the integer
\* floor(h / 2), within 0..h-1, h the block's first dimension.
C8_MiddleRowIndexIsFloor ==
    op.kind \in {"construct", "drag_plot"}
        => /\ op.index.isInt
           /\ op.index.den = 1
           /\ op.index.num = PlotRoiSize[1] \div 2
           /\ op.index.num \in 0..(PlotRoiSize[1] - 1)

\* C9: every ImageLogic's cached range is the minimum and the maximum of the
\* array it holds, which is the array of the image it holds.
C9_RangeNeverStale ==
    \A s \in DOMAIN viewers : \A d \in DockNames :
        LET il == viewers[s].dock[d].image_logic
        IN /\ il.image_array = transpose(squeeze(il.image.array))
           /\ \A i \in DOMAIN il.image_array.data :
                  il.image_min <= il.image_array.data[i] /\ il.image_array.data[i] <= il.image_max
           /\ \E i \in DOMAIN il.image_array.data : il.image_min = il.image_array.data[i]
           /\ \E i \in DOMAIN il.image_array.data : il.image_max = il.image_array.data[i]

C9_Witness ==
    /\ op.kind = "set_image"
    /\ op.dock = "bmode"
    /\ viewers[1].dock["rf"].image_logic.image = ReadImage("a.mha")
    /\ viewers[1].dock["bmode"].image_logic.image = ReadImage("b.mha")
    /\ viewers[1].dock["bmode"].image_logic.image_min = -7

\* C10: after a zoom drag, every dock of the viewer has its zoom ROI at
\* ROILogic's zoom_roi_pos and shows the region extracted there.
C10_ZoomViewsConsistent ==
    op.kind = "drag_zoom"
        => \A d \in DockNames :
               LET v == viewers[op.viewer]
               IN /\ v.roi_logic.zoom_roi_pos = op.pos
                  /\ v.dock[d].zoom_roi.pos = v.roi_logic.zoom_roi_pos
                  /\ v.dock[d].roi_image_item.image.pos = v.roi_logic.zoom_roi_pos

====
